---- MODULE Spec2Model ----
(***************************************************************************)
(* Cattle ERP (app/main.py): the relational store and the request handlers *)
(* that read and write it.  The store engine is the default one of the     *)
(* source, the SQLite file erp.db: a unique index on animal.tag_no,        *)
(* integer primary keys handed out as max(id)+1, and foreign keys that are *)
(* declared but not enforced.  Dates are day numbers, liters are whole     *)
(* numbers, None is 0 (ids, dates) or "" (names).  Of the form fields of   *)
(* an animal that are stored as given (sex, birthdate, cattle_type, ...)   *)
(* the row keeps sex; the free-text notes of the dependent rows are left   *)
(* out.  A handler is one step, except add_milk, which is also given as    *)
(* its read and its commit for requests served concurrently.               *)
(***************************************************************************)
EXTENDS Integers, Sequences, FiniteSets, TLC

VARIABLES
    farms,      \* table farm: row id = position; the name
    users,      \* table user: row id = position; [username, hashed_password,
                \* is_admin, farm_id]
    session,    \* per client, the session cookie's user_id (0: none)
    breeds,     \* table breed: row id = position; the name
    animals,    \* table animal: set of rows [id, tag_no, sex, breed_id, farm_id]
    milk,       \* table milkyielddaily: row id = position
    events,     \* table breedingevent: row id = position
    gests,      \* table gestation: row id = position
    reminders,  \* table vaccinationreminder: row id = position
    today,      \* date.today()
    inflight,   \* per client, a POST /milk or POST /signup between its steps
    req,        \* the request answered last
    resp        \* its response

vars == <<farms, users, session, breeds, animals, milk, events, gests,
          reminders, today, inflight, req, resp>>

store == <<farms, users, breeds, animals, milk, events, gests, reminders>>

----------------------------------------------------------------------------
(* Bounds of the model *)

MaxAnimalId == 2
MaxChildRows == 1
MaxMilkRows == 2
MaxEvents == 2
MaxDays == 1
MaxSignups == 2

(* Program constants *)

DEFAULT_GESTATION_DAYS == 283
Today0 == 1000
RecentLimit == 5
ChartDays == 14

NoId == 0
NoName == ""
NoDate == 0
NoReq == [op |-> "none"]

Clients == {"c1", "c2"}
Tags == {"T1", "T2"}
Sexes == {"F", "M"}
BreedNames == {NoName, "Gir"}
AnimalIds == 1 .. MaxAnimalId
MilkDates == {Today0 - 7, Today0}
Liters == {<<1, 0>>, <<2, 1>>}
EventDates == {Today0 - DEFAULT_GESTATION_DAYS - 1, Today0}
CalvingDates == {Today0}
ReminderDates == {Today0 + 1}
WindowDates == {Today0 - 6, Today0 + 1}
DueDates == {Today0 - DEFAULT_GESTATION_DAYS - 1, Today0 - DEFAULT_GESTATION_DAYS}
Usernames == {"admin", "alice", "bob", "carol"}
Passwords == {"adminpass", "pw"}
SignupNames == {"carol", "dave"}
FarmNames == {"Farm A"}

BreedingType == {"Heat", "AI", "NaturalService", "PDPositive", "PDNegative"}

----------------------------------------------------------------------------
(* Responses *)

RedirectLogin == [code |-> 302, to |-> "/login"]
Redirect(url) == [code |-> 302, to |-> url]
Rendered(page) == [code |-> 200, to |-> page]
NotFound == [code |-> 404, to |-> "Not found"]
Forbidden == [code |-> 403, to |-> "Not allowed"]
TagExists == [code |-> 400, to |-> "Tag already exists"]
LoginFailed == [code |-> 400, to |-> "login.html"]
SignupFailed == [code |-> 400, to |-> "signup.html"]

----------------------------------------------------------------------------
(* Helpers *)

Max(S) == CHOOSE x \in S : \A y \in S : y <= x

RECURSIVE SumOver(_, _)
SumOver(f, S) ==
    IF S = {} THEN 0
    ELSE LET x == CHOOSE y \in S : TRUE IN f[x] + SumOver(f, S \ {x})

(* hash_password and verify_password: a hash verifies the password it was  *)
(* made from and no other                                                  *)
HashPassword(plain) == <<"bcrypt", plain>>

VerifyPassword(plain, hashed) == hashed = HashPassword(plain)

(* get_current_user: the session's user_id, if a user row has it *)
CurrentUserDefaultsToAdmin(c) ==
    IF session[c] \in DOMAIN users THEN session[c] ELSE 1

CurrentUser(c) ==
    IF session[c] \in DOMAIN users THEN session[c] ELSE NoId

(* get_current_user clears a session whose user row is gone *)
SessionAfterAuth(c) ==
    IF session[c] # NoId /\ session[c] \notin DOMAIN users
    THEN [session EXCEPT ![c] = NoId]
    ELSE session

(* the tenant filter of the list and aggregate handlers *)
FarmScoped(u) == users[u].farm_id # NoId /\ ~users[u].is_admin

(* session.get(Animal, id) *)
AnimalRows(rows, id) == {a \in rows : a.id = id}

(* the next integer primary key of table animal *)
NextAnimalId == IF animals = {} THEN 1 ELSE Max({a.id : a \in animals}) + 1

(* select(Breed).where(Breed.name == name).first() *)
BreedLookup(name) ==
    LET hits == {i \in DOMAIN breeds : breeds[i] = name}
    IN IF hits = {} THEN NoId ELSE CHOOSE i \in hits : \A j \in hits : i <= j

(* lookup-or-create of the breed, committed on its own *)
BreedsAfter(name) ==
    IF name = NoName \/ BreedLookup(name) # NoId THEN breeds
    ELSE Append(breeds, name)

BreedIdFor(name) ==
    IF name = NoName THEN NoId
    ELSE IF BreedLookup(name) # NoId THEN BreedLookup(name)
    ELSE Len(breeds) + 1

(* the unique index on animal.tag_no: another row already has the tag *)
TagConflictPerFarm(row) ==
    \E a \in animals :
        a.id # row.id /\ a.tag_no = row.tag_no /\ a.farm_id = row.farm_id

TagConflict(row) ==
    \E a \in animals : a.id # row.id /\ a.tag_no = row.tag_no

----------------------------------------------------------------------------
(* The store after init_db, with the user rows the deployment holds: the   *)
(* default farm's admin and two ordinary users of two farms.               *)

InitFarms == << "Default Farm", "Farm 2" >>

InitUsers ==
    << [username |-> "admin", hashed_password |-> HashPassword("adminpass"),
        is_admin |-> TRUE, farm_id |-> 1],
       [username |-> "alice", hashed_password |-> HashPassword("pw"),
        is_admin |-> FALSE, farm_id |-> 1],
       [username |-> "bob", hashed_password |-> HashPassword("pw"),
        is_admin |-> FALSE, farm_id |-> 2] >>

Init ==
    /\ farms = InitFarms
    /\ users = InitUsers
    /\ session = [c \in Clients |-> IF c = "c1" THEN 2 ELSE 3]
    /\ breeds = << >>
    /\ animals = {}
    /\ milk = << >>
    /\ events = << >>
    /\ gests = << >>
    /\ reminders = << >>
    /\ today = Today0
    /\ inflight = [c \in Clients |-> NoReq]
    /\ req = NoReq
    /\ resp = Rendered("home.html")

----------------------------------------------------------------------------
(* POST /login, GET /logout, POST /signup *)

(* select(User).where(User.username == username).first() *)
UserLookup(name) ==
    LET hits == {i \in DOMAIN users : users[i].username = name}
    IN IF hits = {} THEN NoId ELSE CHOOSE i \in hits : \A j \in hits : i <= j

DoLoginIgnoresPassword(c, name, pw) ==
    LET u == UserLookup(name)
    IN /\ req' = [op |-> "do_login", client |-> c, username |-> name]
       /\ IF u = NoId
          THEN /\ resp' = LoginFailed
               /\ session' = session
          ELSE /\ session' = [session EXCEPT ![c] = u]
               /\ resp' = IF VerifyPassword(pw, users[u].hashed_password)
                          THEN Redirect("/dashboard") ELSE LoginFailed
       /\ UNCHANGED <<store, today, inflight>>

DoLogin(c, name, pw) ==
    LET u == UserLookup(name)
    IN /\ req' = [op |-> "do_login", client |-> c, username |-> name]
       /\ IF u = NoId \/ ~VerifyPassword(pw, users[u].hashed_password)
          THEN /\ resp' = LoginFailed
               /\ session' = session
          ELSE /\ session' = [session EXCEPT ![c] = u]
               /\ resp' = Redirect("/dashboard")
       /\ UNCHANGED <<store, today, inflight>>

Logout(c) ==
    /\ req' = [op |-> "logout", client |-> c]
    /\ session' = [session EXCEPT ![c] = NoId]
    /\ resp' = Redirect("/home")
    /\ UNCHANGED <<store, today, inflight>>

(* the farm and then the user are inserted; the new user is the admin of   *)
(* the new farm and is logged in                                           *)
Signup(c, farm, name, pw) ==
    /\ req' = [op |-> "signup", client |-> c, username |-> name,
               farm_name |-> farm]
    /\ IF UserLookup(name) # NoId
       THEN /\ resp' = SignupFailed
            /\ UNCHANGED <<farms, users, session>>
       ELSE /\ farms' = Append(farms, farm)
            /\ users' = Append(users, [username |-> name,
                                       hashed_password |-> HashPassword(pw),
                                       is_admin |-> TRUE,
                                       farm_id |-> Len(farms) + 1])
            /\ session' = [session EXCEPT ![c] = Len(users) + 1]
            /\ resp' = [code |-> 303, to |-> "/dashboard"]
    /\ UNCHANGED <<breeds, animals, milk, events, gests, reminders, today,
                   inflight>>

(* the same handler in three steps, for requests served concurrently: the  *)
(* select of the username, the commit of the farm, the commit of the user. *)
(* The unique index on user.username rejects the second user of a name;    *)
(* the handler does not catch the error.                                   *)
ServerError == [code |-> 500, to |-> "Internal Server Error"]

SignupCheck(c, farm, name, pw) ==
    /\ inflight[c] = NoReq
    /\ IF UserLookup(name) # NoId
       THEN /\ req' = [op |-> "signup", client |-> c, username |-> name,
                       farm_name |-> farm]
            /\ resp' = SignupFailed
            /\ inflight' = inflight
       ELSE /\ inflight' = [inflight EXCEPT ![c] =
                   [op |-> "signup", stage |-> "checked", farm_name |-> farm,
                    username |-> name, password |-> pw, farm_id |-> NoId]]
            /\ UNCHANGED <<req, resp>>
    /\ UNCHANGED <<store, session, today>>

SignupFarm(c) ==
    LET r == inflight[c]
    IN /\ r.op = "signup"
       /\ r.stage = "checked"
       /\ farms' = Append(farms, r.farm_name)
       /\ inflight' = [inflight EXCEPT ![c] =
              [r EXCEPT !.stage = "farm", !.farm_id = Len(farms) + 1]]
       /\ UNCHANGED <<users, session, breeds, animals, milk, events, gests,
                      reminders, today, req, resp>>

SignupUser(c) ==
    LET r == inflight[c]
    IN /\ r.op = "signup"
       /\ r.stage = "farm"
       /\ req' = [op |-> "signup", client |-> c, username |-> r.username,
                  farm_name |-> r.farm_name]
       /\ inflight' = [inflight EXCEPT ![c] = NoReq]
       /\ IF UserLookup(r.username) # NoId
          THEN /\ resp' = ServerError
               /\ UNCHANGED <<users, session>>
          ELSE /\ users' = Append(users,
                               [username |-> r.username,
                                hashed_password |-> HashPassword(r.password),
                                is_admin |-> TRUE, farm_id |-> r.farm_id])
               /\ session' = [session EXCEPT ![c] = Len(users) + 1]
               /\ resp' = [code |-> 303, to |-> "/dashboard"]
       /\ UNCHANGED <<farms, breeds, animals, milk, events, gests, reminders,
                      today>>

----------------------------------------------------------------------------
(* GET / and GET /home: the same code. The page is public; the counts are  *)
(* computed for a logged-in user and filtered by user.farm_id alone.       *)

HomeRowsInScope(u, A, rows, idx) ==
    IF users[u].farm_id # NoId
    THEN {i \in idx : \E a \in A : /\ a.id = rows[i].animal_id
                                   /\ a.farm_id = users[u].farm_id}
    ELSE idx

HomeOut(u, A, M, G, t) ==
    [animals_count |->
        Cardinality(IF users[u].farm_id # NoId
                    THEN {a \in A : a.farm_id = users[u].farm_id} ELSE A),
     milk_entries_count |->
        Cardinality(HomeRowsInScope(u, A, M,
                        {i \in DOMAIN M : M[i].entry_date = t})),
     gestations_count |->
        Cardinality(HomeRowsInScope(u, A, G,
                        {i \in DOMAIN G :
                            /\ G[i].predicted_calving_date >= t
                            /\ G[i].actual_calving_date = NoDate}))]

Home(c) ==
    /\ req' = [op |-> "home", client |-> c]
    /\ session' = SessionAfterAuth(c)
    /\ resp' = Rendered("home.html")
    /\ UNCHANGED <<store, today, inflight>>

----------------------------------------------------------------------------
(* POST /animals *)

AnimalsCreateDropsError(c, tag, sex, breed) ==
    LET u == CurrentUser(c)
        row == [id |-> NextAnimalId, tag_no |-> tag, sex |-> sex,
                breed_id |-> BreedIdFor(breed), farm_id |-> users[u].farm_id]
    IN /\ req' = [op |-> "animals_create", client |-> c, tag_no |-> tag,
                  sex |-> sex, breed_name |-> breed]
       /\ session' = SessionAfterAuth(c)
       /\ IF u = NoId
          THEN /\ resp' = RedirectLogin
               /\ UNCHANGED <<breeds, animals>>
          ELSE /\ breeds' = BreedsAfter(breed)
               /\ animals' = animals \cup {row}
               /\ resp' = IF TagConflict(row) THEN TagExists
                          ELSE Redirect("/animals")
       /\ UNCHANGED <<farms, users, milk, events, gests, reminders, today, inflight>>

AnimalsCreate(c, tag, sex, breed) ==
    LET u == CurrentUser(c)
        row == [id |-> NextAnimalId, tag_no |-> tag, sex |-> sex,
                breed_id |-> BreedIdFor(breed), farm_id |-> users[u].farm_id]
    IN /\ req' = [op |-> "animals_create", client |-> c, tag_no |-> tag,
                  sex |-> sex, breed_name |-> breed]
       /\ session' = SessionAfterAuth(c)
       /\ IF u = NoId
          THEN /\ resp' = RedirectLogin
               /\ UNCHANGED <<breeds, animals>>
          ELSE /\ breeds' = BreedsAfter(breed)
               /\ IF TagConflict(row)
                  THEN /\ animals' = animals
                       /\ resp' = TagExists
                  ELSE /\ animals' = animals \cup {row}
                       /\ resp' = Redirect("/animals")
       /\ UNCHANGED <<farms, users, milk, events, gests, reminders, today, inflight>>

----------------------------------------------------------------------------
(* GET /animals (no search text) and GET /animals/{id}, GET /animals/{id}/edit *)

AnimalsList(c) ==
    /\ req' = [op |-> "animals_list", client |-> c]
    /\ session' = SessionAfterAuth(c)
    /\ resp' = IF CurrentUser(c) = NoId THEN RedirectLogin
               ELSE Rendered("animals.html")
    /\ UNCHANGED <<store, today, inflight>>

DetailAnswer(u, rows) ==
    IF rows = {} THEN NotFound
    ELSE IF FarmScoped(u) /\ \E a \in rows : a.farm_id # users[u].farm_id
         THEN Forbidden
         ELSE Rendered("animal_detail.html")

AnimalDetail(c, id) ==
    /\ req' = [op |-> "animal_detail", client |-> c, animal_id |-> id]
    /\ session' = SessionAfterAuth(c)
    /\ resp' = IF CurrentUser(c) = NoId THEN RedirectLogin
               ELSE DetailAnswer(CurrentUser(c), AnimalRows(animals, id))
    /\ UNCHANGED <<store, today, inflight>>

AnimalEditForm(c, id) ==
    /\ req' = [op |-> "animal_edit_form", client |-> c, animal_id |-> id]
    /\ session' = SessionAfterAuth(c)
    /\ resp' = IF CurrentUser(c) = NoId THEN RedirectLogin
               ELSE IF AnimalRows(animals, id) = {} THEN NotFound
               ELSE Rendered("animal_edit.html")
    /\ UNCHANGED <<store, today, inflight>>

----------------------------------------------------------------------------
(* POST /animals/{id}/edit *)

AnimalEditKeepsWrite(c, id, tag, sex, breed) ==
    LET u == CurrentUser(c)
        found == AnimalRows(animals, id)
    IN /\ req' = [op |-> "animal_edit", client |-> c, animal_id |-> id,
                  tag_no |-> tag, sex |-> sex, breed_name |-> breed]
       /\ session' = SessionAfterAuth(c)
       /\ IF u = NoId
          THEN /\ resp' = RedirectLogin
               /\ UNCHANGED <<breeds, animals>>
          ELSE IF found = {}
          THEN /\ resp' = NotFound
               /\ UNCHANGED <<breeds, animals>>
          ELSE LET old == CHOOSE a \in found : TRUE
                   row == [old EXCEPT !.tag_no = tag, !.sex = sex,
                                      !.breed_id = BreedIdFor(breed)]
               IN /\ breeds' = BreedsAfter(breed)
                  /\ animals' = (animals \ {old}) \cup {row}
                  /\ resp' = IF TagConflict(row) THEN TagExists
                             ELSE Redirect("/animals/{id}")
       /\ UNCHANGED <<farms, users, milk, events, gests, reminders, today,
                      inflight>>

AnimalEdit(c, id, tag, sex, breed) ==
    LET u == CurrentUser(c)
        found == AnimalRows(animals, id)
    IN /\ req' = [op |-> "animal_edit", client |-> c, animal_id |-> id,
                  tag_no |-> tag, sex |-> sex, breed_name |-> breed]
       /\ session' = SessionAfterAuth(c)
       /\ IF u = NoId
          THEN /\ resp' = RedirectLogin
               /\ UNCHANGED <<breeds, animals>>
          ELSE IF found = {}
          THEN /\ resp' = NotFound
               /\ UNCHANGED <<breeds, animals>>
          ELSE LET old == CHOOSE a \in found : TRUE
                   row == [old EXCEPT !.tag_no = tag, !.sex = sex,
                                      !.breed_id = BreedIdFor(breed)]
               IN /\ breeds' = BreedsAfter(breed)
                  /\ IF TagConflict(row)
                     THEN /\ animals' = animals
                          /\ resp' = TagExists
                     ELSE /\ animals' = (animals \ {old}) \cup {row}
                          /\ resp' = Redirect("/animals/{id}")
       /\ UNCHANGED <<farms, users, milk, events, gests, reminders, today, inflight>>

----------------------------------------------------------------------------
(* POST /animals/{id}/delete: the four selects of the dependent rows read  *)
(* them and delete nothing; only the animal row is deleted.                *)

AnimalDelete(c, id) ==
    LET u == CurrentUser(c)
        found == AnimalRows(animals, id)
    IN /\ req' = [op |-> "animal_delete", client |-> c, animal_id |-> id]
       /\ session' = SessionAfterAuth(c)
       /\ IF u = NoId
          THEN /\ resp' = RedirectLogin
               /\ animals' = animals
          ELSE IF found = {}
          THEN /\ resp' = NotFound
               /\ animals' = animals
          ELSE /\ animals' = animals \ found
               /\ resp' = Redirect("/animals")
       /\ UNCHANGED <<farms, users, breeds, milk, events, gests, reminders, today,
                      inflight>>

----------------------------------------------------------------------------
(* POST /milk/{id} *)

(* select(MilkYieldDaily).where(animal_id, entry_date).first(): 0 if none *)
MilkExisting(rows, id, d) ==
    LET hits == {i \in DOMAIN rows :
                    rows[i].animal_id = id /\ rows[i].entry_date = d}
    IN IF hits = {} THEN NoId ELSE CHOOSE i \in hits : \A j \in hits : i <= j

MilkRow(id, d, am, pm) ==
    [animal_id |-> id, entry_date |-> d, am_liters |-> am, pm_liters |-> pm,
     total_liters |-> am + pm]

(* the write of add_milk, given the row the read found *)
MilkWriteAlwaysInsert(rows, existing, id, d, am, pm) ==
    Append(rows, MilkRow(id, d, am, pm))

MilkWriteKeepsTotal(rows, existing, id, d, am, pm) ==
    IF existing # NoId
    THEN [rows EXCEPT ![existing].am_liters = am, ![existing].pm_liters = pm]
    ELSE Append(rows, MilkRow(id, d, am, pm))

MilkWrite(rows, existing, id, d, am, pm) ==
    IF existing # NoId
    THEN [rows EXCEPT ![existing] = MilkRow(rows[existing].animal_id,
                                            rows[existing].entry_date, am, pm)]
    ELSE Append(rows, MilkRow(id, d, am, pm))

AddMilk(c, id, d, am, pm) ==
    /\ inflight[c] = NoReq
    /\ req' = [op |-> "add_milk", client |-> c, animal_id |-> id,
               entry_date |-> d, am_liters |-> am, pm_liters |-> pm]
    /\ session' = SessionAfterAuth(c)
    /\ IF CurrentUser(c) = NoId
       THEN /\ resp' = RedirectLogin
            /\ milk' = milk
       ELSE /\ milk' = MilkWrite(milk, MilkExisting(milk, id, d), id, d, am, pm)
            /\ resp' = Redirect("/animals/{id}")
    /\ UNCHANGED <<farms, users, breeds, animals, events, gests, reminders, today,
                   inflight>>

(* the same handler in two steps, for requests served concurrently: the    *)
(* read of the existing row, then the write and its commit                 *)
AddMilkRead(c, id, d, am, pm) ==
    /\ inflight[c] = NoReq
    /\ IF CurrentUser(c) = NoId
       THEN /\ req' = [op |-> "add_milk", client |-> c, animal_id |-> id,
                       entry_date |-> d, am_liters |-> am, pm_liters |-> pm]
            /\ resp' = RedirectLogin
            /\ inflight' = inflight
       ELSE /\ inflight' = [inflight EXCEPT ![c] =
                   [op |-> "add_milk", client |-> c, animal_id |-> id,
                    entry_date |-> d, am_liters |-> am, pm_liters |-> pm,
                    existing |-> MilkExisting(milk, id, d)]]
            /\ UNCHANGED <<req, resp>>
    /\ session' = SessionAfterAuth(c)
    /\ UNCHANGED <<store, today>>

AddMilkCommit(c) ==
    LET r == inflight[c]
    IN /\ r # NoReq
       /\ milk' = MilkWrite(milk, r.existing, r.animal_id, r.entry_date,
                            r.am_liters, r.pm_liters)
       /\ inflight' = [inflight EXCEPT ![c] = NoReq]
       /\ req' = [op |-> "add_milk", client |-> c, animal_id |-> r.animal_id,
                  entry_date |-> r.entry_date, am_liters |-> r.am_liters,
                  pm_liters |-> r.pm_liters]
       /\ resp' = Redirect("/animals/{id}")
       /\ UNCHANGED <<farms, users, session, breeds, animals, events, gests,
                      reminders, today>>

----------------------------------------------------------------------------
(* POST /breeding/{id}/event *)

(* the rows of select(Gestation).where(animal_id).order_by(service_date     *)
(* .desc()) that can come first                                            *)
LatestGestations(rows, id) ==
    {i \in DOMAIN rows :
        /\ rows[i].animal_id = id
        /\ \A j \in DOMAIN rows :
              rows[j].animal_id = id =>
                  rows[j].service_date <= rows[i].service_date}

TouchesGestationWithPD(t) == t \in {"AI", "NaturalService", "PDPositive"}

TouchesGestation(t) == t \in {"AI", "NaturalService"}

PredictedCalvingShort(d) == d + DEFAULT_GESTATION_DAYS - 1

PredictedCalving(d) == d + DEFAULT_GESTATION_DAYS

GestationsAfterEventAlwaysInsert(id, d, g) ==
    Append(gests, [animal_id |-> id, service_date |-> d,
                   predicted_calving_date |-> PredictedCalving(d),
                   actual_calving_date |-> NoDate])

GestationsAfterEvent(id, d, g) ==
    IF g # NoId
    THEN [gests EXCEPT ![g].service_date = d,
                       ![g].predicted_calving_date = PredictedCalving(d)]
    ELSE Append(gests, [animal_id |-> id, service_date |-> d,
                        predicted_calving_date |-> PredictedCalving(d),
                        actual_calving_date |-> NoDate])

AddBreedingEvent(c, id, t, d) ==
    LET u == CurrentUser(c)
        latest == LatestGestations(gests, id)
    IN /\ req' = [op |-> "add_breeding_event", client |-> c, animal_id |-> id,
                  event_type |-> t, event_date |-> d]
       /\ session' = SessionAfterAuth(c)
       /\ IF u = NoId
          THEN /\ resp' = RedirectLogin
               /\ UNCHANGED <<events, gests>>
          ELSE IF AnimalRows(animals, id) = {}
          THEN /\ resp' = NotFound
               /\ UNCHANGED <<events, gests>>
          ELSE /\ events' = Append(events, [animal_id |-> id, event_type |-> t,
                                            event_date |-> d])
               /\ IF ~TouchesGestation(t) THEN gests' = gests
                  ELSE IF latest = {}
                       THEN gests' = GestationsAfterEvent(id, d, NoId)
                       ELSE \E g \in latest :
                               gests' = GestationsAfterEvent(id, d, g)
               /\ resp' = Redirect("/animals/{id}")
       /\ UNCHANGED <<farms, users, breeds, animals, milk, reminders, today, inflight>>

----------------------------------------------------------------------------
(* POST /animals/{id}/vaccination_reminder *)

AddVaccinationReminder(c, id, d) ==
    /\ req' = [op |-> "add_vaccination_reminder", client |-> c,
               animal_id |-> id, reminder_date |-> d]
    /\ session' = SessionAfterAuth(c)
    /\ IF CurrentUser(c) = NoId
       THEN /\ resp' = RedirectLogin
            /\ reminders' = reminders
       ELSE IF AnimalRows(animals, id) = {}
       THEN /\ resp' = NotFound
            /\ reminders' = reminders
       ELSE /\ reminders' = Append(reminders, [animal_id |-> id,
                                                reminder_date |-> d])
            /\ resp' = Redirect("/animals/{id}")
    /\ UNCHANGED <<farms, users, breeds, animals, milk, events, gests, today,
                   inflight>>

----------------------------------------------------------------------------
(* POST /gestation/{id}/calved *)

MarkCalvedMovesPredicted(c, id, d) ==
    LET latest == LatestGestations(gests, id)
    IN /\ req' = [op |-> "mark_calved", client |-> c, animal_id |-> id,
                  calving_date |-> d]
       /\ session' = SessionAfterAuth(c)
       /\ IF CurrentUser(c) = NoId
          THEN /\ resp' = RedirectLogin
               /\ gests' = gests
          ELSE IF latest = {}
          THEN /\ resp' = [code |-> 404, to |-> "No gestation record"]
               /\ gests' = gests
          ELSE /\ \E g \in latest :
                     gests' = [gests EXCEPT ![g].actual_calving_date = d,
                                            ![g].predicted_calving_date = d]
               /\ resp' = Redirect("/animals/{id}")
       /\ UNCHANGED <<farms, users, breeds, animals, milk, events, reminders,
                      today, inflight>>

MarkCalved(c, id, d) ==
    LET latest == LatestGestations(gests, id)
    IN /\ req' = [op |-> "mark_calved", client |-> c, animal_id |-> id,
                  calving_date |-> d]
       /\ session' = SessionAfterAuth(c)
       /\ IF CurrentUser(c) = NoId
          THEN /\ resp' = RedirectLogin
               /\ gests' = gests
          ELSE IF latest = {}
          THEN /\ resp' = [code |-> 404, to |-> "No gestation record"]
               /\ gests' = gests
          ELSE /\ \E g \in latest :
                     gests' = [gests EXCEPT ![g].actual_calving_date = d]
               /\ resp' = Redirect("/animals/{id}")
       /\ UNCHANGED <<farms, users, breeds, animals, milk, events, reminders, today,
                      inflight>>

----------------------------------------------------------------------------
(* What GET /animals and GET /dashboard compute for user u from the animal *)
(* rows A, milk rows M, gestation rows G and breeding events E.            *)

(* stmt.where(Animal.farm_id == user.farm_id) for a farm-scoped user *)
VisibleAnimals(u, A) ==
    IF FarmScoped(u) THEN {a \in A : a.farm_id = users[u].farm_id} ELSE A

(* the rows among idx whose animal exists and is of the user's farm; all   *)
(* of idx for an admin or a user without a farm                            *)
RowsInScope(u, A, rows, idx) ==
    IF FarmScoped(u)
    THEN {i \in idx : \E a \in A : /\ a.id = rows[i].animal_id
                                   /\ a.farm_id = users[u].farm_id}
    ELSE idx

SumLiters(M, idx) == SumOver([i \in DOMAIN M |-> M[i].total_liters], idx)

MilkOn(u, A, M, d) ==
    SumLiters(M, RowsInScope(u, A, M, {i \in DOMAIN M : M[i].entry_date = d}))

(* round(total7 / 7, 2), in hundredths of a liter; the rows of the last    *)
(* seven days are not filtered by farm                                     *)
Avg7OverDaysWithRows(M, t) ==
    LET milk7 == {i \in DOMAIN M : M[i].entry_date >= t - 6
                                   /\ M[i].entry_date <= t}
        n == Cardinality({M[i].entry_date : i \in milk7})
    IN IF milk7 = {} THEN 0 ELSE (200 * SumLiters(M, milk7) + n) \div (2 * n)

Avg7(M, t) ==
    LET milk7 == {i \in DOMAIN M : M[i].entry_date >= t - 6
                                   /\ M[i].entry_date <= t}
    IN IF milk7 = {} THEN 0 ELSE (200 * SumLiters(M, milk7) + 7) \div 14

PendingGestations(u, A, G, t) ==
    RowsInScope(u, A, G, {i \in DOMAIN G :
                            /\ G[i].predicted_calving_date >= t
                            /\ G[i].actual_calving_date = NoDate})

ChartValues(u, A, M, t) ==
    [k \in 1 .. ChartDays |-> MilkOn(u, A, M, t - (ChartDays - 1) + (k - 1))]

(* select(BreedingEvent).order_by(event_date.desc()).all()[:5], as the set *)
(* of row sets it can return (rows of equal date come in any order)        *)
RecentEvents(E) ==
    LET n == IF Len(E) < RecentLimit THEN Len(E) ELSE RecentLimit
    IN { {E[i] : i \in S} :
            S \in {T \in SUBSET DOMAIN E :
                     /\ Cardinality(T) = n
                     /\ \A i \in T, j \in DOMAIN E \ T :
                           E[i].event_date >= E[j].event_date} }

DashboardOut(u, A, M, G, E, t) ==
    [total_animals |-> Cardinality(VisibleAnimals(u, A)),
     today_milk |-> MilkOn(u, A, M, t),
     avg_7 |-> Avg7(M, t),
     pregnant |-> Cardinality(PendingGestations(u, A, G, t)),
     chart_values |-> ChartValues(u, A, M, t),
     recent_events |-> RecentEvents(E)]

Dashboard(c) ==
    /\ req' = [op |-> "dashboard", client |-> c]
    /\ session' = SessionAfterAuth(c)
    /\ resp' = IF CurrentUser(c) = NoId THEN RedirectLogin
               ELSE Rendered("dashboard.html")
    /\ UNCHANGED <<store, today, inflight>>

----------------------------------------------------------------------------
(* Every handler, each request handled to completion before the next.      *)

Next ==
    \/ \E c \in Clients : AnimalsList(c)
    \/ \E c \in Clients : Dashboard(c)
    \/ \E c \in Clients, tag \in Tags :
          /\ AnimalsCreate(c, tag, "F", NoName)
          /\ \A a \in animals' : a.id <= MaxAnimalId
    \/ \E c \in Clients, id \in AnimalIds : AnimalDetail(c, id)
    \/ \E c \in Clients, id \in AnimalIds : AnimalEditForm(c, id)
    \/ \E c \in Clients, id \in AnimalIds, tag \in Tags :
          AnimalEdit(c, id, tag, "F", NoName)
    \/ \E c \in Clients, id \in AnimalIds : AnimalDelete(c, id)
    \/ \E c \in Clients, id \in AnimalIds :
          /\ AddMilk(c, id, Today0, 1, 1)
          /\ Len(milk') <= MaxChildRows
    \/ \E c \in Clients, id \in AnimalIds, t \in {"Heat", "AI"} :
          /\ AddBreedingEvent(c, id, t, Today0)
          /\ Len(events') <= MaxChildRows
    \/ \E c \in Clients, id \in AnimalIds, d \in ReminderDates :
          /\ AddVaccinationReminder(c, id, d)
          /\ Len(reminders') <= MaxChildRows
    \/ \E c \in Clients, id \in AnimalIds, d \in CalvingDates :
          MarkCalved(c, id, d)

Spec == Init /\ [][Next]_vars

----------------------------------------------------------------------------
(* The handlers that write table animal, with the reads of an animal.      *)

NextAnimals ==
    \/ \E c \in Clients, tag \in Tags, sex \in Sexes, breed \in BreedNames :
          /\ AnimalsCreate(c, tag, sex, breed)
          /\ \A a \in animals' : a.id <= MaxAnimalId
    \/ \E c \in Clients, id \in AnimalIds, tag \in Tags, sex \in Sexes,
          breed \in BreedNames :
          AnimalEdit(c, id, tag, sex, breed)
    \/ \E c \in Clients, id \in AnimalIds : AnimalDelete(c, id)
    \/ \E c \in Clients, id \in AnimalIds : AnimalDetail(c, id)

SpecAnimals == Init /\ [][NextAnimals]_vars

----------------------------------------------------------------------------
(* POST /milk, one request at a time, beside creation and deletion of the  *)
(* animal the rows point to.  Liters are <<am_liters, pm_liters>>.         *)

NextMilk ==
    \/ \E c \in Clients, id \in AnimalIds, d \in MilkDates, l \in Liters :
          /\ AddMilk(c, id, d, l[1], l[2])
          /\ Len(milk') <= MaxMilkRows
    \/ \E c \in Clients :
          /\ AnimalsCreate(c, "T1", "F", NoName)
          /\ \A a \in animals' : a.id <= MaxAnimalId
    \/ \E c \in Clients, id \in AnimalIds : AnimalDelete(c, id)

SpecMilk == Init /\ [][NextMilk]_vars

(* POST /milk served concurrently: reads and commits of the clients'       *)
(* requests interleave.                                                    *)

NextMilkRace ==
    \/ \E c \in Clients, id \in AnimalIds, d \in MilkDates, l \in Liters :
          AddMilkRead(c, id, d, l[1], l[2])
    \/ \E c \in Clients :
          /\ AddMilkCommit(c)
          /\ Len(milk') <= MaxMilkRows

SpecMilkRace == Init /\ [][NextMilkRace]_vars

(* Breeding events and calvings of the animals of one client; the events  *)
(* that are no service are all dated today.                                *)

NextBreeding ==
    \/ \E id \in AnimalIds, t \in BreedingType, d \in EventDates :
          /\ TouchesGestation(t) \/ d = Today0
          /\ AddBreedingEvent("c1", id, t, d)
          /\ Len(events') <= MaxEvents
    \/ \E id \in AnimalIds, d \in CalvingDates : MarkCalved("c1", id, d)
    \/ \E tag \in Tags :
          /\ AnimalsCreate("c1", tag, "F", NoName)
          /\ \A a \in animals' : a.id <= MaxAnimalId

SpecBreeding == Init /\ [][NextBreeding]_vars

(* The pages that count and list, read by the admin and by the users of   *)
(* two farms: client c1 logs in and out, client c2 stays bob of farm 2.    *)

NextTenants ==
    \/ \E name \in Usernames, pw \in Passwords : DoLogin("c1", name, pw)
    \/ Logout("c1")
    \/ \E c \in Clients : Home(c)
    \/ \E c \in Clients : AnimalsList(c)
    \/ \E c \in Clients : Dashboard(c)
    \/ \E c \in Clients, tag \in Tags :
          /\ AnimalsCreate(c, tag, "F", NoName)
          /\ \A a \in animals' : a.id <= MaxAnimalId
    \/ \E c \in Clients, id \in AnimalIds : AnimalDelete(c, id)
    \/ \E c \in Clients, id \in AnimalIds :
          /\ AddMilk(c, id, Today0, 1, 1)
          /\ Len(milk') <= MaxChildRows
    \/ \E c \in Clients, id \in AnimalIds, d \in DueDates :
          /\ AddBreedingEvent(c, id, "AI", d)
          /\ Len(events') <= MaxChildRows

SpecTenants == Init /\ [][NextTenants]_vars

(* The dashboard over the days: milk is entered for dates about the edges *)
(* of the 7-day window, the day passes, the admin or alice reads.          *)

Tick ==
    /\ today < Today0 + MaxDays
    /\ today' = today + 1
    /\ UNCHANGED <<store, session, inflight, req, resp>>

NextDashboard ==
    \/ \E name \in {"admin", "alice"}, pw \in Passwords :
          DoLogin("c1", name, pw)
    \/ \E id \in AnimalIds, d \in WindowDates, l \in Liters :
          /\ AddMilk("c1", id, d, l[1], l[2])
          /\ Len(milk') <= MaxMilkRows
    \/ Tick
    \/ \E c \in Clients : Dashboard(c)

SpecDashboard == Init /\ [][NextDashboard]_vars

(* Every protected handler, asked by clients with and without a session.  *)
(* A client starts with no cookie, with the cookie of alice or of bob, or  *)
(* with a cookie signed for a user_id that table user does not hold.       *)

StaleUserId == Len(InitUsers) + 1

InitAuth ==
    /\ farms = InitFarms
    /\ users = InitUsers
    /\ session \in [Clients -> {NoId, 2, 3, StaleUserId}]
    /\ breeds = << >>
    /\ animals = {}
    /\ milk = << >>
    /\ events = << >>
    /\ gests = << >>
    /\ reminders = << >>
    /\ today = Today0
    /\ inflight = [c \in Clients |-> NoReq]
    /\ req = NoReq
    /\ resp = Rendered("home.html")

NextAuth ==
    \/ \E c \in Clients : Logout(c)
    \/ \E c \in Clients : AnimalsList(c)
    \/ \E c \in Clients : Dashboard(c)
    \/ \E c \in Clients :
          /\ AnimalsCreate(c, "T1", "F", NoName)
          /\ \A a \in animals' : a.id <= MaxAnimalId
    \/ \E c \in Clients : AnimalDetail(c, 1)
    \/ \E c \in Clients : AnimalEditForm(c, 1)
    \/ \E c \in Clients : AnimalEdit(c, 1, "T1", "M", NoName)
    \/ \E c \in Clients : AnimalDelete(c, 1)
    \/ \E c \in Clients :
          /\ AddMilk(c, 1, Today0, 1, 1)
          /\ Len(milk') <= MaxChildRows
    \/ \E c \in Clients :
          /\ AddBreedingEvent(c, 1, "AI", Today0)
          /\ Len(events') <= MaxChildRows
    \/ \E c \in Clients, d \in ReminderDates :
          /\ AddVaccinationReminder(c, 1, d)
          /\ Len(reminders') <= MaxChildRows
    \/ \E c \in Clients, d \in CalvingDates : MarkCalved(c, 1, d)

SpecAuth == InitAuth /\ [][NextAuth]_vars

(* Farms made by POST /signup, and what their users enter and read.        *)

NextSignup ==
    \/ \E c \in Clients, farm \in FarmNames, name \in SignupNames :
          /\ Signup(c, farm, name, "pw")
          /\ Len(users') <= Len(InitUsers) + MaxSignups
    \/ \E c \in Clients, tag \in Tags :
          /\ AnimalsCreate(c, tag, "F", NoName)
          /\ \A a \in animals' : a.id <= MaxAnimalId
    \/ \E c \in Clients, id \in AnimalIds :
          /\ AddMilk(c, id, Today0, 1, 1)
          /\ Len(milk') <= MaxChildRows
    \/ \E c \in Clients, id \in AnimalIds :
          /\ AddBreedingEvent(c, id, "AI", Today0)
          /\ Len(events') <= MaxChildRows
    \/ \E c \in Clients : AnimalsList(c)
    \/ \E c \in Clients : Dashboard(c)

SpecSignup == Init /\ [][NextSignup]_vars

(* POST /signup served concurrently: the steps of the clients' requests   *)
(* interleave.                                                             *)

NextSignupRace ==
    \/ \E c \in Clients, farm \in FarmNames, name \in SignupNames :
          SignupCheck(c, farm, name, "pw")
    \/ \E c \in Clients : SignupFarm(c)
    \/ \E c \in Clients :
          /\ SignupUser(c)
          /\ Len(users') <= Len(InitUsers) + MaxSignups
    \/ \E c \in Clients : Logout(c)
    \/ \E c \in Clients : Dashboard(c)

SpecSignupRace == Init /\ [][NextSignupRace]_vars

(* Sessions: clients log out, log in with right and wrong passwords, sign  *)
(* up, and in between ask protected handlers that read and write.          *)

NextSession ==
    \/ \E c \in Clients : Logout(c)
    \/ \E c \in Clients, name \in Usernames, pw \in Passwords :
          DoLogin(c, name, pw)
    \/ \E c \in Clients, farm \in FarmNames, name \in SignupNames :
          /\ Signup(c, farm, name, "pw")
          /\ Len(users') <= Len(InitUsers) + MaxSignups
    \/ \E c \in Clients : Dashboard(c)
    \/ \E c \in Clients :
          /\ AnimalsCreate(c, "T1", "F", NoName)
          /\ \A a \in animals' : a.id <= MaxAnimalId
    \/ \E c \in Clients : AnimalDelete(c, 1)
    \/ \E c \in Clients :
          /\ AddMilk(c, 1, Today0, 1, 1)
          /\ Len(milk') <= MaxChildRows

SpecSession == Init /\ [][NextSession]_vars

----------------------------------------------------------------------------
(* Properties *)

Authenticated(c) == CurrentUser(c) # NoId

PerAnimalOps ==
    {"animal_detail", "animal_edit_form", "animal_edit", "animal_delete",
     "add_milk", "add_breeding_event", "add_vaccination_reminder",
     "mark_calved"}

(* the store without the animals of farms other than u's and without the  *)
(* rows attached to them                                                   *)
OtherFarmAnimals(u) == {a \in animals : a.farm_id # users[u].farm_id}

WithoutOtherFarms(u, rows) ==
    SelectSeq(rows, LAMBDA r : \A a \in OtherFarmAnimals(u) : a.id # r.animal_id)

(* C1: for a non-admin user with a farm, what GET /animals and GET         *)
(* /dashboard compute does not depend on the animals of other farms nor on *)
(* the rows attached to them: it is what the handlers compute from the     *)
(* store with those animals and rows taken away.                           *)
C1_OutputsDependOnOwnFarmOnly ==
    \A c \in Clients :
        LET u == CurrentUser(c)
            A == animals \ OtherFarmAnimals(u)
        IN (u # NoId /\ FarmScoped(u)) =>
              /\ VisibleAnimals(u, animals) = VisibleAnimals(u, A)
              /\ DashboardOut(u, animals, milk, gests, events, today)
                 = DashboardOut(u, A, WithoutOtherFarms(u, milk),
                                WithoutOtherFarms(u, gests),
                                WithoutOtherFarms(u, events), today)

(* C2: a per-animal request of a non-admin user of farm F for an animal of *)
(* another farm is answered 403 and leaves the store unchanged.            *)
C2_CrossFarmRequestForbidden ==
    [][ (/\ req'.op \in PerAnimalOps
         /\ Authenticated(req'.client)
         /\ FarmScoped(CurrentUser(req'.client))
         /\ \E a \in animals :
               /\ a.id = req'.animal_id
               /\ a.farm_id # users[CurrentUser(req'.client)].farm_id)
        => (resp'.code = 403 /\ store' = store) ]_vars

(* C3: after a successful delete of an animal, no animal row has the id    *)
(* and no milk, breeding, gestation or reminder row refers to it.          *)
C3_DeleteLeavesNoRowOfTheAnimal ==
    [][ (req'.op = "animal_delete" /\ resp' = Redirect("/animals"))
        => /\ \A a \in animals' : a.id # req'.animal_id
           /\ \A i \in DOMAIN milk' : milk'[i].animal_id # req'.animal_id
           /\ \A i \in DOMAIN events' : events'[i].animal_id # req'.animal_id
           /\ \A i \in DOMAIN gests' : gests'[i].animal_id # req'.animal_id
           /\ \A i \in DOMAIN reminders' :
                 reminders'[i].animal_id # req'.animal_id ]_vars

(* C4: a POST /animals of a logged-in user with a tag_no some animal       *)
(* already has is answered 400 'Tag already exists', adds no animal row    *)
(* and changes no field of any animal row.                                 *)
C4_DuplicateTagOnCreateIsConflict ==
    [][ (/\ req'.op = "animals_create"
         /\ Authenticated(req'.client)
         /\ \E a \in animals : a.tag_no = req'.tag_no)
        => (/\ resp'.code = 400
            /\ resp'.to = "Tag already exists"
            /\ animals' = animals) ]_vars

C4_Witness ==
    /\ req.op = "animals_create"
    /\ resp.code = 400
    /\ \E a \in animals :
          /\ a.tag_no = req.tag_no
          /\ a.farm_id # users[session[req.client]].farm_id

(* C5: no two animal rows have the same tag_no, whatever their farms.      *)
C5_TagNumbersUnique ==
    \A a \in animals, b \in animals : a.tag_no = b.tag_no => a = b

C5_Witness ==
    /\ req.op = "animal_edit"
    /\ resp.code = 400
    /\ \E a \in animals, b \in animals :
          a.id # b.id /\ a.farm_id # b.farm_id /\ a.id = req.animal_id

(* C6: with one POST /milk handled at a time, a request for (animal, date) *)
(* leaves exactly one row of that pair, holding the request's am, pm and   *)
(* their sum, and leaves the rows of every other pair as they were; no     *)
(* other request changes a milk row.                                       *)
MilkRowsOf(rows, id, d) ==
    {i \in DOMAIN rows : rows[i].animal_id = id /\ rows[i].entry_date = d}

C6_MilkUpsertKeepsOneLatestRow ==
    [][ IF req'.op = "add_milk" /\ Authenticated(req'.client)
        THEN /\ Cardinality(MilkRowsOf(milk', req'.animal_id,
                                       req'.entry_date)) = 1
             /\ \A i \in MilkRowsOf(milk', req'.animal_id, req'.entry_date) :
                   /\ milk'[i].am_liters = req'.am_liters
                   /\ milk'[i].pm_liters = req'.pm_liters
                   /\ milk'[i].total_liters = req'.am_liters + req'.pm_liters
             /\ \A i \in DOMAIN milk' :
                   i \notin MilkRowsOf(milk', req'.animal_id, req'.entry_date)
                   => (i \in DOMAIN milk /\ milk'[i] = milk[i])
             /\ \A i \in DOMAIN milk : i \in DOMAIN milk'
        ELSE milk' = milk ]_vars

C6_Witness ==
    /\ req.op = "add_milk"
    /\ Len(milk) = 2
    /\ milk[1].animal_id = req.animal_id
    /\ milk[1].entry_date = req.entry_date
    /\ milk[1].am_liters = req.am_liters
    /\ milk[1].pm_liters = req.pm_liters
    /\ milk[1].total_liters = 3

(* C7: when a POST /milk that read no row for its (animal, date) commits   *)
(* after another request has inserted a row for the pair, the store holds  *)
(* exactly one row for the pair, with the values of the request that       *)
(* commits last.                                                           *)
C7_RacingMilkWritesLeaveOneRow ==
    [][ \A c \in Clients :
          (/\ inflight[c] # NoReq
           /\ inflight'[c] = NoReq
           /\ inflight[c].existing = NoId
           /\ MilkRowsOf(milk, inflight[c].animal_id,
                         inflight[c].entry_date) # {})
          => /\ Cardinality(MilkRowsOf(milk', inflight[c].animal_id,
                                       inflight[c].entry_date)) = 1
             /\ \A i \in MilkRowsOf(milk', inflight[c].animal_id,
                                    inflight[c].entry_date) :
                   /\ milk'[i].am_liters = inflight[c].am_liters
                   /\ milk'[i].pm_liters = inflight[c].pm_liters
                   /\ milk'[i].total_liters
                      = inflight[c].am_liters + inflight[c].pm_liters ]_vars

(* C8: after an AI or NaturalService event dated d for an existing animal, *)
(* the animal's latest gestation row has service_date d and                *)
(* predicted_calving_date d + 283.                                         *)
ServiceRequest(r) ==
    /\ r.op = "add_breeding_event"
    /\ r.event_type \in {"AI", "NaturalService"}

C8_ServiceSetsLatestGestation ==
    [][ (/\ ServiceRequest(req')
         /\ Authenticated(req'.client)
         /\ AnimalRows(animals, req'.animal_id) # {})
        => /\ LatestGestations(gests', req'.animal_id) # {}
           /\ \A i \in LatestGestations(gests', req'.animal_id) :
                 /\ gests'[i].service_date = req'.event_date
                 /\ gests'[i].predicted_calving_date
                    = req'.event_date + 283 ]_vars

C8_Witness ==
    /\ ServiceRequest(req)
    /\ resp.code = 302
    /\ Len(events) = 2
    /\ events[1].animal_id = req.animal_id
    /\ events[1].event_type \in {"AI", "NaturalService"}
    /\ events[1].event_date # req.event_date
    /\ Len(gests) = 1
    /\ gests[1].service_date = req.event_date

(* C9: a Heat, PDPositive or PDNegative event leaves every gestation row   *)
(* as it was, and for an existing animal appends the one event row.        *)
C9_OtherEventsLeaveGestations ==
    [][ (/\ req'.op = "add_breeding_event"
         /\ req'.event_type \in {"Heat", "PDPositive", "PDNegative"})
        => /\ gests' = gests
           /\ (Authenticated(req'.client)
               /\ AnimalRows(animals, req'.animal_id) # {})
              => events' = Append(events,
                                  [animal_id |-> req'.animal_id,
                                   event_type |-> req'.event_type,
                                   event_date |-> req'.event_date]) ]_vars

C9_Witness ==
    /\ req.op = "add_breeding_event"
    /\ req.event_type = "PDPositive"
    /\ resp.code = 302
    /\ \E i \in DOMAIN gests : gests[i].animal_id = req.animal_id
    /\ Len(events) = 2

(* C10: an AI or NaturalService event for an animal whose gestation row    *)
(* has an actual calving date re-opens the row: afterwards the animal has  *)
(* a gestation row with the new dates and no actual calving date, counted  *)
(* as pending for every user it is in scope of while predicted >= today.   *)
C10_ServiceReopensCalvedGestation ==
    [][ (/\ ServiceRequest(req')
         /\ Authenticated(req'.client)
         /\ AnimalRows(animals, req'.animal_id) # {}
         /\ \E g \in LatestGestations(gests, req'.animal_id) :
               gests[g].actual_calving_date # NoDate)
        => \E i \in DOMAIN gests' :
              /\ gests'[i].animal_id = req'.animal_id
              /\ gests'[i].service_date = req'.event_date
              /\ gests'[i].predicted_calving_date = req'.event_date + 283
              /\ gests'[i].actual_calving_date = NoDate
              /\ gests'[i].predicted_calving_date >= today'
                 => \A u \in DOMAIN users :
                       (FarmScoped(u) =>
                           \E a \in AnimalRows(animals', req'.animal_id) :
                              a.farm_id = users[u].farm_id)
                       => i \in PendingGestations(u, animals', gests',
                                                  today') ]_vars

(* C11: on GET / and GET /home, GET /animals and GET /dashboard the        *)
(* animals and rows counted or listed for a logged-in user are those of    *)
(* all farms when the user is an admin or has no farm, and those of the    *)
(* user's own farm otherwise.                                              *)
ScopeAll(u) == users[u].is_admin \/ users[u].farm_id = NoId

ExpectedAnimals(u) ==
    IF ScopeAll(u) THEN animals
    ELSE {a \in animals : a.farm_id = users[u].farm_id}

ExpectedRows(u, rows, idx) ==
    IF ScopeAll(u) THEN idx
    ELSE {i \in idx : \E a \in ExpectedAnimals(u) : a.id = rows[i].animal_id}

MilkToday == {i \in DOMAIN milk : milk[i].entry_date = today}

OpenDue ==
    {i \in DOMAIN gests : /\ gests[i].predicted_calving_date >= today
                          /\ gests[i].actual_calving_date = NoDate}

C11_ReadsScopedByAdminOrFarm ==
    \A c \in Clients :
        LET u == CurrentUser(c)
            home == HomeOut(u, animals, milk, gests, today)
            dash == DashboardOut(u, animals, milk, gests, events, today)
        IN u # NoId =>
              /\ home.animals_count = Cardinality(ExpectedAnimals(u))
              /\ home.milk_entries_count
                 = Cardinality(ExpectedRows(u, milk, MilkToday))
              /\ home.gestations_count
                 = Cardinality(ExpectedRows(u, gests, OpenDue))
              /\ VisibleAnimals(u, animals) = ExpectedAnimals(u)
              /\ dash.total_animals = Cardinality(ExpectedAnimals(u))
              /\ dash.today_milk
                 = SumLiters(milk, ExpectedRows(u, milk, MilkToday))
              /\ dash.pregnant = Cardinality(ExpectedRows(u, gests, OpenDue))

(* C12: the pending count of GET /dashboard is the number of gestation     *)
(* rows with predicted_calving_date >= today and no actual calving date    *)
(* whose animal exists and is in the user's scope.                         *)
C12_PendingCountsOpenDueRowsOfAnimalsInScope ==
    \A c \in Clients :
        LET u == CurrentUser(c)
        IN u # NoId =>
              DashboardOut(u, animals, milk, gests, events, today).pregnant
              = Cardinality({i \in OpenDue :
                                \E a \in ExpectedAnimals(u) :
                                    a.id = gests[i].animal_id})

(* C13: for an admin or a user without a farm, avg_7 of GET /dashboard is  *)
(* the sum of total_liters over the milk rows dated today-6..today,        *)
(* divided by 7 and rounded to hundredths, whatever the number of days     *)
(* that have rows; it is 0 when the window has no row; rows dated before   *)
(* today-6 or after today do not contribute.                               *)
WindowSum ==
    SumOver([k \in 0 .. 6 |->
                SumLiters(milk, {i \in DOMAIN milk :
                                    milk[i].entry_date = today - k})],
            0 .. 6)

C13_Avg7IsWindowSumOverSeven ==
    \A c \in Clients :
        LET u == CurrentUser(c)
            avg_7 == DashboardOut(u, animals, milk, gests, events, today).avg_7
        IN (u # NoId /\ ScopeAll(u)) =>
              /\ 14 * avg_7 - 200 * WindowSum \in -7 .. 7
              /\ WindowSum = 0 => avg_7 = 0

C13_Witness ==
    /\ req.op = "dashboard"
    /\ resp.code = 200
    /\ ScopeAll(CurrentUser(req.client))
    /\ today = Today0 + 1
    /\ \E i, j \in DOMAIN milk :
          /\ milk[i].entry_date = today - 7
          /\ milk[j].entry_date = today
    /\ WindowSum = 3

(* C14: every stored milk row has total_liters = am_liters + pm_liters,    *)
(* after any sequence of inserts and overwrites by POST /milk/{id}.        *)
C14_TotalIsAmPlusPm ==
    \A i \in DOMAIN milk :
        milk[i].total_liters = milk[i].am_liters + milk[i].pm_liters

C14_Witness ==
    /\ req.op = "add_milk"
    /\ Len(milk) = 2
    /\ milk[1].animal_id = req.animal_id
    /\ milk[1].entry_date = req.entry_date
    /\ milk[1].am_liters = 1
    /\ milk[1].total_liters = 1
    /\ milk[2].total_liters = 3

(* C15: a POST /animals that fails on a duplicate tag number leaves the    *)
(* store as it was before the request; in particular no breed row made     *)
(* from the request's breed_name is left.                                  *)
C15_FailedCreateLeavesStore ==
    [][ (/\ req'.op = "animals_create"
         /\ resp'.code = 400)
        => store' = store ]_vars

(* C16: a per-animal request of a logged-in user that names an id no       *)
(* animal row has is answered 404 and leaves the store unchanged.          *)
C16_MissingAnimalIsNotFound ==
    [][ (/\ req'.op \in PerAnimalOps
         /\ Authenticated(req'.client)
         /\ AnimalRows(animals, req'.animal_id) = {})
        => (resp'.code = 404 /\ store' = store) ]_vars

(* C17: every milk, breeding event, gestation and reminder row has an      *)
(* animal_id that is the id of exactly one animal row.                     *)
OwnedByOneAnimal(rows) ==
    \A i \in DOMAIN rows :
        Cardinality(AnimalRows(animals, rows[i].animal_id)) = 1

C17_ChildRowsReferToOneAnimal ==
    /\ OwnedByOneAnimal(milk)
    /\ OwnedByOneAnimal(events)
    /\ OwnedByOneAnimal(gests)
    /\ OwnedByOneAnimal(reminders)

(* C18: a request to a protected endpoint from a client whose session has  *)
(* no user_id, or a user_id that no user row has, is answered with a       *)
(* redirect to /login and leaves the store unchanged.                      *)
ProtectedOps == PerAnimalOps \cup {"animals_list", "animals_create", "dashboard"}

NoValidSession(c) == session[c] = NoId \/ session[c] \notin DOMAIN users

C18_NoSessionRedirectsToLogin ==
    [][ (/\ req'.op \in ProtectedOps
         /\ NoValidSession(req'.client))
        => (/\ resp'.code = 302
            /\ resp'.to = "/login"
            /\ store' = store) ]_vars

C18_Witness ==
    /\ req.op = "animal_delete"
    /\ resp.to = "/login"
    /\ session[req.client] = NoId
    /\ AnimalRows(animals, req.animal_id) # {}
    /\ Len(milk) = 1

(* C19: an animal of the farm of one user made by POST /signup is not in   *)
(* the GET /animals list of a user made by another POST /signup, nor in    *)
(* the animal count, milk totals and pending count of that user's GET      *)
(* /dashboard.                                                             *)
SignedUp(u) == u \in DOMAIN users /\ u > Len(InitUsers)

AnimalsOfOtherSignups(v) ==
    {a \in animals :
        /\ a.farm_id # users[v].farm_id
        /\ \E u \in DOMAIN users : SignedUp(u) /\ users[u].farm_id = a.farm_id}

WithoutAnimals(S, rows) ==
    SelectSeq(rows, LAMBDA r : \A a \in S : a.id # r.animal_id)

C19_SignupFarmsAreIsolated ==
    \A c \in Clients :
        LET v == CurrentUser(c)
            others == AnimalsOfOtherSignups(v)
            seen == DashboardOut(v, animals, milk, gests, events, today)
            own == DashboardOut(v, animals \ others,
                                WithoutAnimals(others, milk),
                                WithoutAnimals(others, gests),
                                WithoutAnimals(others, events), today)
        IN (v # NoId /\ SignedUp(v)) =>
              /\ VisibleAnimals(v, animals) \cap others = {}
              /\ seen.total_animals = own.total_animals
              /\ seen.today_milk = own.today_milk
              /\ seen.chart_values = own.chart_values
              /\ seen.pregnant = own.pregnant

(* C20: a POST /animals/{id}/edit of a logged-in user that gives animal X  *)
(* the tag_no a different animal Y has is answered 400, and the rows of X  *)
(* and of Y are afterwards what they were, field by field.                 *)
C20_DuplicateTagOnEditIsConflict ==
    [][ \A x \in animals, y \in animals :
          (/\ req'.op = "animal_edit"
           /\ Authenticated(req'.client)
           /\ x.id = req'.animal_id
           /\ y.id # x.id
           /\ y.tag_no = req'.tag_no)
          => (/\ resp'.code = 400
              /\ AnimalRows(animals', x.id) = {x}
              /\ AnimalRows(animals', y.id) = {y}) ]_vars

C20_Witness ==
    /\ req.op = "animal_edit"
    /\ resp.code = 400
    /\ req.breed_name = "Gir"
    /\ \E x \in animals, y \in animals :
          /\ x.id = req.animal_id
          /\ y.id # x.id
          /\ y.tag_no = req.tag_no
          /\ x.sex # req.sex
          /\ x.breed_id = NoId
          /\ x.farm_id = y.farm_id

(* C21: with breeding-event and calved requests handled one at a time, no  *)
(* animal id has more than one gestation row: a service event inserts the  *)
(* row when the animal has none and otherwise overwrites the row it has,   *)
(* and no other request adds a gestation row.                              *)
GestationsOf(rows, id) == {i \in DOMAIN rows : rows[i].animal_id = id}

C21_OneGestationRowPerAnimal ==
    [][ /\ \A id \in AnimalIds : Cardinality(GestationsOf(gests', id)) <= 1
        /\ IF /\ ServiceRequest(req')
              /\ resp'.code = 302
              /\ resp'.to # "/login"
              /\ GestationsOf(gests, req'.animal_id) = {}
           THEN Len(gests') = Len(gests) + 1
           ELSE Len(gests') = Len(gests) ]_vars

C21_Witness ==
    /\ ServiceRequest(req)
    /\ resp.code = 302
    /\ Len(events) = 2
    /\ \A i \in DOMAIN events :
          /\ events[i].animal_id = req.animal_id
          /\ events[i].event_type \in {"AI", "NaturalService"}
    /\ Len(gests) = 1
    /\ gests[1].actual_calving_date # NoDate

(* C22: POST /gestation/{id}/calved of a logged-in user sets               *)
(* actual_calving_date to the submitted date on the animal's gestation row *)
(* of greatest service_date and changes no other row, field or table; when *)
(* the animal has no gestation row it answers 404 and changes nothing.     *)
C22_CalvedWritesOneField ==
    [][ (req'.op = "mark_calved" /\ Authenticated(req'.client))
        => /\ <<farms, users, breeds, animals, milk, events, reminders>>'
              = <<farms, users, breeds, animals, milk, events, reminders>>
           /\ IF GestationsOf(gests, req'.animal_id) = {}
              THEN resp'.code = 404 /\ gests' = gests
              ELSE /\ resp'.code = 302
                   /\ \E g \in LatestGestations(gests, req'.animal_id) :
                         gests' = [gests EXCEPT ![g].actual_calving_date
                                                   = req'.calving_date] ]_vars

C22_Witness ==
    /\ req.op = "mark_calved"
    /\ resp.code = 302
    /\ Len(gests) = 2
    /\ \E i, j \in DOMAIN gests :
          /\ gests[i].animal_id = req.animal_id
          /\ gests[i].actual_calving_date = req.calving_date
          /\ gests[j].animal_id # req.animal_id
          /\ gests[j].actual_calving_date = NoDate

(* C23: when no POST /signup is under way, every farm row made by a signup *)
(* is the farm of a user made by signup: a signup that makes no user       *)
(* leaves no farm, also when requests for the same username interleave.    *)
C23_SignupFarmHasItsUser ==
    (\A c \in Clients : inflight[c] = NoReq) =>
        \A f \in DOMAIN farms :
            f > Len(InitFarms) =>
                \E u \in DOMAIN users : SignedUp(u) /\ users[u].farm_id = f

(* C24: the trend series of GET /dashboard has 14 entries, for the days    *)
(* today-13 .. today in increasing order, and the entry of day d is the    *)
(* sum of total_liters of the milk rows dated d whose animal is in the     *)
(* user's scope (0 when there is none).                                    *)
C24_TrendIsFourteenScopedDaySums ==
    \A c \in Clients :
        LET u == CurrentUser(c)
            chart == DashboardOut(u, animals, milk, gests, events,
                                  today).chart_values
        IN u # NoId =>
              /\ Len(chart) = 14
              /\ \A k \in 1 .. 14 :
                    chart[k]
                    = SumLiters(milk,
                        {i \in DOMAIN milk :
                            /\ milk[i].entry_date = today - 14 + k
                            /\ \E a \in ExpectedAnimals(u) :
                                  a.id = milk[i].animal_id})

(* C25: GET /logout leaves the client without a session; a client without  *)
(* a session gets one only by its own POST /login or POST /signup that     *)
(* succeeds, a failed POST /login leaves every session as it was, and      *)
(* until then each of its requests to a protected endpoint is redirected   *)
(* to /login and changes nothing in the store.                             *)
SessionOps == {"do_login", "signup"}

C25_LoggedOutUntilLoginOrSignup ==
    [][ /\ req'.op = "logout" => session'[req'.client] = NoId
        /\ \A c \in Clients :
              (session[c] = NoId /\ session'[c] # NoId)
              => /\ req'.op \in SessionOps
                 /\ req'.client = c
                 /\ resp'.code \in {302, 303}
                 /\ session'[c] \in DOMAIN users'
                 /\ users'[session'[c]].username = req'.username
        /\ (req'.op = "do_login" /\ resp'.code = 400) => session' = session
        /\ (req'.op \in ProtectedOps /\ session[req'.client] = NoId)
           => (resp' = RedirectLogin /\ store' = store) ]_vars

C25_Witness ==
    /\ req.op = "do_login"
    /\ resp.code = 400
    /\ session[req.client] = NoId
    /\ UserLookup(req.username) # NoId
    /\ \E a \in animals : a.farm_id = users[UserLookup(req.username)].farm_id

====
